---- MODULE Spec2Model ----
(***************************************************************************)
(* Trade accounting engine of the portfolio package: the average-cost      *)
(* Inventory, the Position ledger with its four trade primitives and the   *)
(* exposure-allocation state machine (src/trade.py), and the portfolio     *)
(* statistics computed from the positions' logs (src/statistics.py).       *)
(*                                                                         *)
(* Numbers are Python floats in the source.  They are modelled as exact    *)
(* rationals <<n, d>> in lowest terms with d > 0, so that the arithmetic   *)
(* of the source (weighted averages, exposure ratios, commissions) is      *)
(* computed as written instead of being abstracted away.                   *)
(***************************************************************************)
EXTENDS Integers, Sequences, FiniteSets, TLC

\* ------------------------------------------------------------------ bounds
\* A Position call is made only while the trade log and the balance log hold
\* fewer than MaxRecords records together.
MaxRecords == 2
\* Largest number of calls made on a bare Inventory.
MaxCalls == 3
\* Largest number of trades logged by a position that is only traded.
MaxTrades == 3
\* Snapshots of the positions of a portfolio are taken at 1..MaxStamp.
MaxStamp == 2
\* Largest length of a NAV series handed to the metrics.
MaxLen == 4

\* ------------------------------------------------------- rational numbers
AbsI(x) == IF x < 0 THEN -x ELSE x

RECURSIVE GCD(_, _)
GCD(a, b) == IF b = 0 THEN a ELSE GCD(b, a % b)

\* The rational n/d (d # 0) in lowest terms with a positive denominator.
Rat(n, d) ==
    LET g == GCD(AbsI(n), AbsI(d))
        s == IF d < 0 THEN -1 ELSE 1
    IN  <<(s * n) \div g, (s * d) \div g>>

Int2R(i) == <<i, 1>>
Zero == Int2R(0)
One == Int2R(1)
Hundred == Int2R(100)

RAdd(x, y) == Rat(x[1] * y[2] + y[1] * x[2], x[2] * y[2])
RNeg(x) == <<-x[1], x[2]>>
RSub(x, y) == RAdd(x, RNeg(y))
RMul(x, y) == Rat(x[1] * y[1], x[2] * y[2])
\* x / y for y # 0 (callers raise ZeroDivisionError first when y = 0)
RDiv(x, y) == Rat(x[1] * y[2], x[2] * y[1])
RAbs(x) == <<AbsI(x[1]), x[2]>>
RLt(x, y) == x[1] * y[2] < y[1] * x[2]
RLe(x, y) == x[1] * y[2] <= y[1] * x[2]
RGt(x, y) == RLt(y, x)
RMax(x, y) == IF RLt(x, y) THEN y ELSE x

\* math.isclose(a, b) with its defaults rel_tol = 1e-09, abs_tol = 0.0:
\*   a == b  or  |a - b| <= rel_tol * max(|a|, |b|).
\* With |a-b| = n/d and max(|a|,|b|) = m/e the test n/d * 10^9 <= m/e is
\* n*e <= floor(m*d / 10^9), which needs no product beyond 32 bits.
RelTolInv == 1000000000

isclose(a, b) ==
    LET diff == RAbs(RSub(a, b))
        big == RMax(RAbs(a), RAbs(b))
    IN  \/ a = b
        \/ diff[1] * big[2] <= (big[1] * diff[2]) \div RelTolInv

\* PRECISION = 1e-6
PRECISION == Rat(1, 1000000)

\* ---------------------------------------------------------------- results
\* Every modelled method returns a record: the object after the call, the
\* exception raised ("" when the call returns normally) and the value
\* returned (a tuple; <<>> stands for None).
NoError == ""

\* ------------------------------------------------------- TradePercentage
\* A slip in calculate: the amount is left out of the notional.
calculate_no_amount(pct, price, amount) == RMul(price, pct)

\* TradePercentage.calculate(price, amount) for the percentage pct.
calculate(pct, price, amount) == RMul(RMul(price, RAbs(amount)), pct)

\* TradePercentage.__init__(percentage): the one assertion is percentage < 1,
\* so a negative percentage constructs a commission like any other.
TradePercentage(percentage) ==
    IF RLt(percentage, One)
    THEN [raised |-> NoError, percentage |-> percentage]
    ELSE [raised |-> "AssertionError", percentage |-> Zero]

\* -------------------------------------------------------------- Inventory
\* An Inventory is [inventory |-> sequence of lots <<size, avg price>>,
\*                  islong |-> BOOLEAN].
NewInventory == [inventory |-> <<>>, islong |-> TRUE]

go_short(inv) ==
    IF Len(inv.inventory) = 0
    THEN [inv |-> [inv EXCEPT !.islong = FALSE], raised |-> NoError, ret |-> <<>>]
    ELSE [inv |-> inv, raised |-> "AssertionError", ret |-> <<>>]

go_long(inv) ==
    IF Len(inv.inventory) = 0
    THEN [inv |-> [inv EXCEPT !.islong = TRUE], raised |-> NoError, ret |-> <<>>]
    ELSE [inv |-> inv, raised |-> "AssertionError", ret |-> <<>>]

Inventory_get_amount(inv) ==
    IF Len(inv.inventory) > 0
    THEN IF inv.islong THEN inv.inventory[1][1] ELSE RNeg(inv.inventory[1][1])
    ELSE Zero

Inventory_get_price(inv) ==
    IF Len(inv.inventory) > 0 THEN inv.inventory[1][2] ELSE Zero

\* A slip in the average: the plain mean of the old average and the entry
\* price instead of the size-weighted mean.
new_avg_price_unweighted(lot, amount, price) ==
    RDiv(RAdd(lot[2], price), Int2R(2))

\* The new average price of _entry on a non-empty lot (new_amount # 0).
new_avg_price(lot, amount, price) ==
    RDiv(RAdd(RMul(lot[1], lot[2]), RMul(amount, price)), RAdd(lot[1], amount))

\* Inventory._entry
entry(inv, amount, price) ==
    IF ~RGt(amount, Zero) \/ ~RGt(price, Zero)
    THEN [inv |-> inv, raised |-> "AssertionError", ret |-> <<>>]
    ELSE IF Len(inv.inventory) = 0
    THEN [inv |-> [inv EXCEPT !.inventory = Append(@, <<amount, price>>)],
          raised |-> NoError, ret |-> <<RMul(amount, price)>>]
    ELSE LET new_amount == RAdd(inv.inventory[1][1], amount)
         IN  IF new_amount = Zero
             THEN [inv |-> inv, raised |-> "ZeroDivisionError", ret |-> <<>>]
             ELSE [inv |-> [inv EXCEPT !.inventory[1] =
                              <<new_amount, new_avg_price(inv.inventory[1], amount, price)>>],
                   raised |-> NoError, ret |-> <<RMul(amount, price)>>]

\* A slip in the percentage: the exit price as a percentage of the average
\* price, the average not subtracted.
realized_pct_of_price(long_side, price, avg_price) ==
    RMul(RDiv(price, avg_price), Hundred)

\* realized_profit_pct of _exit (avg_price # 0)
realized_pct(long_side, price, avg_price) ==
    IF long_side
    THEN RMul(RDiv(RSub(price, avg_price), avg_price), Hundred)
    ELSE RMul(RDiv(RSub(avg_price, price), avg_price), Hundred)

\* Inventory._exit.  On an empty inventory the method falls off its end and
\* returns None without raising.
exit(inv, amount, price) ==
    IF ~RGt(amount, Zero) \/ ~RGt(price, Zero)
    THEN [inv |-> inv, raised |-> "AssertionError", ret |-> <<>>]
    ELSE IF Len(inv.inventory) > 0
    THEN LET inventory_amount == RAbs(Inventory_get_amount(inv))
             avg_price == Inventory_get_price(inv)
         IN  IF avg_price = Zero
             THEN [inv |-> inv, raised |-> "ZeroDivisionError", ret |-> <<>>]
             ELSE LET realized_profit_pct == realized_pct(inv.islong, price, avg_price)
                      realized_profit_pt ==
                          RDiv(RMul(amount, realized_profit_pct), Hundred)
                      ret == <<realized_profit_pt, realized_profit_pct, avg_price,
                               RMul(amount, price)>>
                  IN  IF isclose(inventory_amount, amount)
                      THEN [inv |-> [inv EXCEPT !.inventory = <<>>],
                            raised |-> NoError, ret |-> ret]
                      ELSE [inv |-> [inv EXCEPT !.inventory[1] =
                                        <<RSub(inventory_amount, amount), avg_price>>],
                            raised |-> NoError, ret |-> ret]
    ELSE [inv |-> inv, raised |-> NoError, ret |-> <<>>]

Inventory_long(inv, amount, price) ==
    IF ~inv.islong
    THEN [inv |-> inv, raised |-> "AssertionError", ret |-> <<>>]
    ELSE entry(inv, RAbs(amount), price)

Inventory_close(inv, amount, price) ==
    IF ~inv.islong
    THEN [inv |-> inv, raised |-> "AssertionError", ret |-> <<>>]
    ELSE exit(inv, RAbs(amount), price)

Inventory_short(inv, amount, price) ==
    IF inv.islong
    THEN [inv |-> inv, raised |-> "AssertionError", ret |-> <<>>]
    ELSE entry(inv, RAbs(amount), price)

Inventory_cover(inv, amount, price) ==
    IF inv.islong
    THEN [inv |-> inv, raised |-> "AssertionError", ret |-> <<>>]
    ELSE exit(inv, RAbs(amount), price)

\* --------------------------------------------------------------- Position
\* A Position is a record of the fields of the class; commision holds the
\* percentage of its TradePercentage.  Default commission TradePercentage(0.001).
DefaultPercentage == Rat(1, 1000)

NewPosition(fund0) ==
    [strategy_exposure |-> Zero, base_rate |-> One, fund |-> fund0, fee |-> Zero,
     inv |-> NewInventory, commision |-> DefaultPercentage,
     trade_log |-> <<>>, trade_profit |-> <<>>,
     balance_log |-> <<>>, timestamp_log |-> <<>>]

Raise(self, err) == [self |-> self, raised |-> err]
Return(self) == [self |-> self, raised |-> NoError]

get_amount(self) == Inventory_get_amount(self.inv)

enough_amount(self, amount) ==
    RLe(RAbs(amount), RAdd(RAbs(get_amount(self)), PRECISION))

cal_nav(cash, amount, price) == RAdd(cash, RMul(amount, price))

cal_exposure(cash, amount, price) ==
    IF amount = Zero
    THEN Zero
    ELSE LET nav == cal_nav(cash, amount, price)
         IN  IF RLe(nav, Zero) THEN Zero ELSE RSub(One, RDiv(cash, nav))

get_gav(self, price) == cal_nav(self.fund, get_amount(self), price)

\* A sign slip in get_nav: the fee is added to the gross value.
get_nav_plus_fee(self, price) == RAdd(get_gav(self, price), self.fee)

get_nav(self, price) == RSub(get_gav(self, price), self.fee)

TradeEntry(timestamp, amount, fee_to_pay, price, trade) ==
    [timestamp |-> timestamp, amount |-> amount, fee |-> fee_to_pay,
     price |-> price, trade |-> trade]

\* A copy-and-paste slip: every trade-profit record is tagged LONG.
ProfitEntry_always_long(timestamp, amount, price, avg_price, realized_profit, pt, pct, trade) ==
    [timestamp |-> timestamp, amount |-> amount, exit_price |-> price,
     enter_price |-> avg_price, realized_profit |-> realized_profit,
     realized_profit_pt |-> pt, realized_profit_pct |-> pct, trade |-> "LONG"]

ProfitEntry(timestamp, amount, price, avg_price, realized_profit, pt, pct, trade) ==
    [timestamp |-> timestamp, amount |-> amount, exit_price |-> price,
     enter_price |-> avg_price, realized_profit |-> realized_profit,
     realized_profit_pt |-> pt, realized_profit_pct |-> pct, trade |-> trade]

\* A slip in Position.short: the direction flag is assigned directly instead
\* of through go_short() on a flat inventory.
short_direction_direct(self) ==
    [inv |-> [self.inv EXCEPT !.islong = FALSE], raised |-> NoError, ret |-> <<>>]

\* if self.inv.get_amount() == 0: self.inv.go_short()
short_direction(self) ==
    IF get_amount(self) = Zero
    THEN go_short(self.inv)
    ELSE [inv |-> self.inv, raised |-> NoError, ret |-> <<>>]

\* if self.inv.get_amount() == 0: self.inv.go_long()
long_direction(self) ==
    IF get_amount(self) = Zero
    THEN go_long(self.inv)
    ELSE [inv |-> self.inv, raised |-> NoError, ret |-> <<>>]

\* Position.long
long(self, amt, price, timestamp) ==
    LET g == long_direction(self)
        amount == RAbs(amt)
        r == Inventory_long(g.inv, RAbs(amount), price)
        fee_to_pay == calculate(self.commision, price, amount)
    IN  IF g.raised # NoError THEN Raise(self, g.raised)
        ELSE IF r.raised # NoError THEN Raise([self EXCEPT !.inv = r.inv], r.raised)
        ELSE Return([self EXCEPT
                 !.inv = r.inv,
                 !.fund = RAdd(@, RNeg(RAbs(r.ret[1]))),
                 !.fee = RAdd(@, fee_to_pay),
                 !.trade_log = Append(@, TradeEntry(timestamp, amount, fee_to_pay,
                                                    price, "LONG"))])

\* Position.short
short(self, amt, price, timestamp) ==
    LET g == short_direction(self)
        amount == RAbs(amt)
        r == Inventory_short(g.inv, RAbs(amount), price)
        fee_to_pay == calculate(self.commision, price, amount)
    IN  IF g.raised # NoError THEN Raise(self, g.raised)
        ELSE IF r.raised # NoError THEN Raise([self EXCEPT !.inv = r.inv], r.raised)
        ELSE Return([self EXCEPT
                 !.inv = r.inv,
                 !.fund = RAdd(@, RAbs(r.ret[1])),
                 !.fee = RAdd(@, fee_to_pay),
                 !.trade_log = Append(@, TradeEntry(timestamp, RNeg(amount), fee_to_pay,
                                                    price, "SHORT"))])

\* Position.close.  Unpacking the None that Inventory.close returns on an
\* empty inventory raises TypeError before anything is recorded.
close(self, amt, price, timestamp) ==
    LET amount == RAbs(amt)
        r == Inventory_close(self.inv, RAbs(amount), price)
        fee_to_pay == calculate(self.commision, price, amount)
    IN  IF r.raised # NoError THEN Raise(self, r.raised)
        ELSE IF r.ret = <<>> THEN Raise(self, "TypeError")
        ELSE LET realized_profit == RMul(RMul(r.ret[1], self.base_rate), price)
             IN  Return([self EXCEPT
                     !.inv = r.inv,
                     !.fund = RAdd(@, RAbs(r.ret[4])),
                     !.fee = RAdd(@, fee_to_pay),
                     !.trade_log = Append(@, TradeEntry(timestamp, RNeg(RAbs(amount)),
                                                        fee_to_pay, price, "CLOSE")),
                     !.trade_profit = Append(@, ProfitEntry(timestamp, RAbs(amount),
                                          price, r.ret[3], realized_profit,
                                          r.ret[1], r.ret[2], "LONG"))])

\* Position.cover
cover(self, amt, price, timestamp) ==
    LET amount == RAbs(amt)
        r == Inventory_cover(self.inv, RAbs(amount), price)
        fee_to_pay == calculate(self.commision, price, amount)
    IN  IF r.raised # NoError THEN Raise(self, r.raised)
        ELSE IF r.ret = <<>> THEN Raise(self, "TypeError")
        ELSE LET realized_profit == RMul(RMul(r.ret[1], self.base_rate), price)
             IN  Return([self EXCEPT
                     !.inv = r.inv,
                     !.fund = RAdd(@, RNeg(RAbs(r.ret[4]))),
                     !.fee = RAdd(@, fee_to_pay),
                     !.trade_log = Append(@, TradeEntry(timestamp, RAbs(amount),
                                                        fee_to_pay, price, "COVER")),
                     !.trade_profit = Append(@, ProfitEntry(timestamp, RNeg(RAbs(amount)),
                                          price, r.ret[3], realized_profit,
                                          r.ret[1], r.ret[2], "SHORT"))])

\* A slip in update_base_rate: the cash is converted at the new rate.
update_base_rate_converting(self, rate) ==
    Return([self EXCEPT !.base_rate = rate, !.fund = RMul(@, rate)])

update_base_rate(self, rate) == Return([self EXCEPT !.base_rate = rate])

set_commision(self, pct) == Return([self EXCEPT !.commision = pct])

\* Position.extract_fund: returns the cash and leaves none.
extract_fund(self) ==
    [self |-> [self EXCEPT !.fund = Zero], raised |-> NoError, ret |-> <<self.fund>>]

\* Position.deposit_fund: the cash becomes the argument (an assignment).
deposit_fund(self, f) == Return([self EXCEPT !.fund = f])

summary(self) ==
    [fund |-> self.fund, amount |-> get_amount(self),
     strategy_exposure |-> self.strategy_exposure, fee |-> self.fee,
     base_rate |-> self.base_rate]

\* Position.end_date
end_date(self, timestamp, price) ==
    LET s == summary(self)
        rec == [fund |-> s.fund, amount |-> s.amount,
                strategy_exposure |-> s.strategy_exposure, fee |-> s.fee,
                base_rate |-> s.base_rate, timestamp |-> timestamp, price |-> price,
                gav |-> get_gav(self, price), nav |-> get_nav(self, price),
                exposure |-> cal_exposure(s.fund, s.amount, price)]
    IN  Return([self EXCEPT !.balance_log = Append(@, rec),
                            !.timestamp_log = Append(@, timestamp)])

\* One primitive call issued by allocate: the primitive, and amount_changed
\* either as the held amount (div = FALSE, x is the amount) or as the
\* quotient x / price (div = TRUE), which raises ZeroDivisionError when the
\* price is zero before the primitive is called.
Step(op, x, div) == [op |-> op, x |-> x, div |-> div]

\* The case analysis of Position.allocate on old_exposure and new_exposure:
\* the primitive calls it issues, in order.
allocate_cases(self, new_exposure, price) ==
    LET old_exposure == self.strategy_exposure
        amount == get_amount(self)
        exposure == cal_exposure(self.fund, amount, price)
        nav == cal_nav(self.fund, amount, price)
    IN  IF RGt(old_exposure, Zero)
        THEN IF isclose(new_exposure, Zero)
             THEN <<Step("close", amount, FALSE)>>
             ELSE IF RGt(new_exposure, Zero) /\ RGt(new_exposure, old_exposure)
             THEN <<Step("long", RMul(nav, RSub(new_exposure, exposure)), TRUE)>>
             ELSE IF RGt(new_exposure, Zero) /\ RLt(new_exposure, old_exposure)
             THEN <<Step("close", RMul(nav, RSub(new_exposure, exposure)), TRUE)>>
             ELSE IF RLt(new_exposure, Zero)
             THEN <<Step("close", amount, FALSE),
                    Step("short", RMul(nav, new_exposure), TRUE)>>
             ELSE <<>>
        ELSE IF isclose(old_exposure, Zero)
        THEN IF RGt(new_exposure, Zero)
             THEN <<Step("long", RMul(nav, new_exposure), TRUE)>>
             ELSE IF RLt(new_exposure, Zero)
             THEN <<Step("short", RMul(nav, new_exposure), TRUE)>>
             ELSE <<>>
        ELSE IF RLt(old_exposure, Zero)
        THEN IF isclose(new_exposure, Zero)
             THEN <<Step("cover", amount, FALSE)>>
             ELSE IF RLt(new_exposure, Zero) /\ RGt(new_exposure, old_exposure)
             THEN <<Step("cover", RMul(nav, RSub(exposure, new_exposure)), TRUE)>>
             ELSE IF RLt(new_exposure, Zero) /\ RLt(new_exposure, old_exposure)
             THEN <<Step("short", RMul(nav, RSub(exposure, new_exposure)), TRUE)>>
             ELSE IF RGt(new_exposure, Zero)
             THEN <<Step("cover", amount, FALSE),
                    Step("long", RMul(nav, new_exposure), TRUE)>>
             ELSE <<>>
        ELSE <<>>

\* A slip in amount_changed: the notional nav * exposure is traded as if it
\* were an amount, the division by the price left out.
do_step_undivided(self, step, price, timestamp) ==
    CASE step.op = "long" -> long(self, step.x, price, timestamp)
      [] step.op = "short" -> short(self, step.x, price, timestamp)
      [] step.op = "close" -> close(self, step.x, price, timestamp)
      [] OTHER -> cover(self, step.x, price, timestamp)

\* self.<op>(amount_changed, price, timestamp=timestamp, notes=notes)
do_step(self, step, price, timestamp) ==
    IF step.div /\ price = Zero
    THEN Raise(self, "ZeroDivisionError")
    ELSE LET amount_changed == IF step.div THEN RDiv(step.x, price) ELSE step.x
         IN  CASE step.op = "long" -> long(self, amount_changed, price, timestamp)
               [] step.op = "short" -> short(self, amount_changed, price, timestamp)
               [] step.op = "close" -> close(self, amount_changed, price, timestamp)
               [] OTHER -> cover(self, amount_changed, price, timestamp)

\* A slip in the two-step transitions: only the first primitive is called.
run_steps_first_only(self, steps, price, timestamp) ==
    IF Len(steps) = 0 THEN Return(self)
    ELSE do_step(self, steps[1], price, timestamp)

\* The primitive calls of one allocate, in order; an exception ends the call
\* where it is raised, keeping what was done before it.  (The intermediate
\* results are bound as values, one evaluation each.)
run_steps(self, steps, price, timestamp) ==
    IF Len(steps) = 0 THEN Return(self)
    ELSE CHOOSE second \in
           { IF Len(steps) >= 2 /\ first.raised = NoError
             THEN do_step(first.self, steps[2], price, timestamp)
             ELSE first :
               first \in {do_step(self, steps[1], price, timestamp)} } : TRUE

\* A variant that compares the target with the exposure measured at the call's
\* price instead of the recorded strategy_exposure: it trades on price drift
\* even when the target is unchanged.
allocate_on_measured(self, new_exposure, price, timestamp) ==
    LET measured == cal_exposure(self.fund, get_amount(self), price)
        seen == [self EXCEPT !.strategy_exposure = measured]
    IN  IF isclose(measured, new_exposure)
        THEN Return(self)
        ELSE CHOOSE res \in
               { IF t.raised # NoError THEN t
                 ELSE Return([t.self EXCEPT !.strategy_exposure = new_exposure]) :
                   t \in { run_steps(self, steps, price, timestamp) :
                             steps \in {allocate_cases(seen, new_exposure, price)} } } : TRUE

\* A slip at the end of allocate: strategy_exposure is not updated.
allocate_stale(self, new_exposure, price, timestamp) ==
    IF isclose(self.strategy_exposure, new_exposure)
    THEN Return(self)
    ELSE CHOOSE t \in { run_steps(self, steps, price, timestamp) :
                          steps \in {allocate_cases(self, new_exposure, price)} } : TRUE

\* Position.allocate: the no-op test, the primitive calls of the case, then
\* the assignment of strategy_exposure.
allocate(self, new_exposure, price, timestamp) ==
    IF isclose(self.strategy_exposure, new_exposure)
    THEN Return(self)
    ELSE CHOOSE res \in
           { IF t.raised # NoError THEN t
             ELSE Return([t.self EXCEPT !.strategy_exposure = new_exposure]) :
               t \in { run_steps(self, steps, price, timestamp) :
                         steps \in {allocate_cases(self, new_exposure, price)} } } : TRUE

\* -------------------------------------------------------------- Statistics
RECURSIVE RSum(_, _)
\* The sum of f[x] over the finite set S.
RSum(S, f) ==
    IF S = {} THEN Zero
    ELSE LET x == CHOOSE y \in S : TRUE
         IN  RAdd(f[x], RSum(S \ {x}, f))

\* Position.get_balance_log: pd.DataFrame(self.balance_log,
\* index=self.timestamp_log).  A frame is its set of columns (none when it is
\* built from an empty list), its index and the row at each index value; the
\* snapshots of one position are taken at distinct timestamps.
get_balance_log(self) ==
    LET n == Len(self.timestamp_log)
        index == {self.timestamp_log[i] : i \in 1..n}
    IN  [columns |-> IF self.balance_log = <<>> THEN {}
                     ELSE DOMAIN self.balance_log[1],
         index |-> index,
         row |-> [t \in index |->
                    self.balance_log[CHOOSE i \in 1..n : self.timestamp_log[i] = t]]]

\* Position.get_trade_profit: pd.DataFrame(self.trade_profit).
get_trade_profit(self) ==
    [columns |-> IF self.trade_profit = <<>> THEN {}
                 ELSE DOMAIN self.trade_profit[1],
     rows |-> self.trade_profit]

\* pd.concat([frame[column] for each symbol], keys=symbols, axis=1): the
\* index of the table is the union of the indexes, and a frame that has no
\* row at an index value leaves NaN in its cell (here <<>>; a value v is <<v>>).
concat_axis1(frames, column) ==
    [t \in UNION {frames[s].index : s \in DOMAIN frames} |->
        [s \in DOMAIN frames |->
            IF t \in frames[s].index THEN <<frames[s].row[t][column]>> ELSE <<>>]]

\* DataFrame.sum(axis=1): the sum of each row, NaN cells skipped.
sum_axis1(table) ==
    [t \in DOMAIN table |->
        RSum({s \in DOMAIN table[t] : table[t][s] # <<>>},
             [s \in DOMAIN table[t] |->
                 IF table[t][s] = <<>> THEN Zero ELSE table[t][s][1]])]

\* series + scalar
add_scalar(series, c) == [t \in DOMAIN series |-> RAdd(series[t], c)]

\* pd.concat(frames, keys=symbols) followed by reset_index: the rows of all
\* frames, each with its symbol (level_0) and its position in its own frame
\* (level_1) as columns.  The rows are kept as a set: nothing read from the
\* frame afterwards depends on their order.
concat_keys(frames) ==
    [columns |-> {"level_0", "level_1"} \cup UNION {frames[s].columns : s \in DOMAIN frames},
     rows |-> UNION {{[level_0 |-> s, level_1 |-> i - 1, rec |-> frames[s].rows[i]] :
                        i \in 1..Len(frames[s].rows)} : s \in DOMAIN frames}]

\* Statistics(config, positions, fixed_cash): a field that is None is <<>>,
\* a field holding v is <<v>>.
NewStatistics(positions, fixed_cash) ==
    [positions |-> positions, fixed_cash |-> fixed_cash, balance_log |-> <<>>,
     equity |-> <<>>, gav |-> <<>>, trade_profit |-> <<>>]

\* Statistics.calculate.  The 'nav' column is missing from the frame of a
\* position that has no snapshot, and the 'timestamp' column from the
\* concatenation of trade-profit frames that are all empty: both raise
\* KeyError, the second after equity, gav and balance_log were assigned.
Statistics_calculate(self) ==
    LET symbols == DOMAIN self.positions
        frames == [s \in symbols |-> get_balance_log(self.positions[s])]
        profits == concat_keys([s \in symbols |-> get_trade_profit(self.positions[s])])
    IN  IF \E s \in symbols : "nav" \notin frames[s].columns
        THEN Raise(self, "KeyError")
        ELSE LET assigned ==
                   [self EXCEPT
                      !.equity = <<add_scalar(sum_axis1(concat_axis1(frames, "nav")),
                                              self.fixed_cash)>>,
                      !.gav = <<add_scalar(sum_axis1(concat_axis1(frames, "gav")),
                                           self.fixed_cash)>>,
                      !.balance_log = <<frames>>,
                      !.trade_profit = <<profits>>]
             IN  IF "timestamp" \notin profits.columns
                 THEN Raise(assigned, "KeyError")
                 ELSE Return([assigned EXCEPT !.trade_profit =
                                <<[profits EXCEPT !.columns = @ \ {"timestamp"}]>>])

\* Statistics.get_long_trades and get_short_trades
get_long_trades(self) ==
    [self.trade_profit[1] EXCEPT !.rows = {r \in @ : r.rec.trade = "LONG"}]

get_short_trades(self) ==
    [self.trade_profit[1] EXCEPT !.rows = {r \in @ : r.rec.trade = "SHORT"}]

\* cal_trades of Statistics.trade_summary: the counts of the breakdown (the
\* averages are left out).  Selecting a column the frame does not have
\* raises KeyError.
cal_trades(trades) ==
    IF "realized_pnl" \notin trades.columns \/ "realized_gross_profit" \notin trades.columns
    THEN [raised |-> "KeyError", ret |-> <<>>]
    ELSE [raised |-> NoError,
          ret |-> <<[total_trades |-> Cardinality(trades.rows),
                     winning_trades |->
                        Cardinality({r \in trades.rows : RGt(r.rec.realized_pnl, Zero)}),
                     lossing_trades |->
                        Cardinality({r \in trades.rows : RLe(r.rec.realized_pnl, Zero)})]>>]

\* Statistics.trade_summary(raw=True): the breakdowns All, Long, Short.
trade_summary(self) ==
    IF self.trade_profit = <<>>
    THEN [raised |-> "TypeError", ret |-> <<>>]
    ELSE LET all == cal_trades(self.trade_profit[1])
             long_trades == cal_trades(get_long_trades(self))
             short_trades == cal_trades(get_short_trades(self))
         IN  IF all.raised # NoError THEN all
             ELSE IF long_trades.raised # NoError THEN long_trades
             ELSE IF short_trades.raised # NoError THEN short_trades
             ELSE [raised |-> NoError,
                   ret |-> <<[All |-> all.ret[1], Long |-> long_trades.ret[1],
                              Short |-> short_trades.ret[1]]>>]

\* ----------------------------------------------------------------- Metrics
\* A slip in the running maximum: the maximum of the whole series is used at
\* every position.
maximum_accumulate_global(vec) ==
    [i \in 1..Len(vec) |->
        CHOOSE m \in {vec[k] : k \in 1..Len(vec)} :
            \A k \in 1..Len(vec) : RLe(vec[k], m)]

RECURSIVE maximum_accumulate(_)
\* np.maximum.accumulate(vec): the running maximum, built left to right.
maximum_accumulate(vec) ==
    IF Len(vec) <= 1 THEN vec
    ELSE LET front == maximum_accumulate(SubSeq(vec, 1, Len(vec) - 1))
         IN  Append(front, RMax(front[Len(front)], vec[Len(vec)]))

\* drawdowns(ser): 1 - vec / maximums, element by element.
drawdowns(ser) ==
    LET maximums == maximum_accumulate(ser)
    IN  [i \in 1..Len(ser) |-> RSub(One, RDiv(ser[i], maximums[i]))]

RECURSIVE np_max(_)
np_max(vec) ==
    IF Len(vec) = 1 THEN vec[1] ELSE RMax(vec[1], np_max(Tail(vec)))

\* max_drawdown(ser): np.max(drawdowns(ser)); np.max of an empty array
\* raises ValueError.
max_drawdown(ser) ==
    IF ser = <<>>
    THEN [raised |-> "ValueError", ret |-> <<>>]
    ELSE [raised |-> NoError, ret |-> <<np_max(drawdowns(ser))>>]

\* ------------------------------------------------------------ the inputs
\* Amounts: a zero (rejected by the assertions), a size, and a larger size
\* given with a negative sign (the primitives take its absolute value).
Amounts == {Int2R(0), Int2R(1), Int2R(-2)}
Prices == {Int2R(1), Int2R(2)}
Exposures == {Int2R(-1), Rat(-1, 2), Int2R(0), Rat(1, 2), Int2R(1)}
Funds == {Int2R(0), Int2R(4)}
Rates == {Int2R(1), Int2R(2)}
\* Percentages handed to TradePercentage(...) besides the default rate: a
\* negative one, and the whole notional, which the constructor rejects.
Percentages == {Rat(-1, 100), One}
Timestamps == {1, 2}
\* Targets and prices of a position driven by allocate alone: a smaller
\* target and a price far from the others are added, so that the exposure
\* measured at the new price can lie well away from the recorded one.
DriftExposures == Exposures \cup {Rat(1, 4)}
DriftPrices == Prices \cup {Int2R(8)}
\* timestamp=None, the default of the trade primitives and of allocate
None == 0

\* The positions of a portfolio, as trading on the first day left them: an
\* untouched position, one holding a lot, and two that made a round trip (a
\* LONG trade closed higher, a SHORT trade covered higher).
Untouched == NewPosition(Int2R(4))
Holding == long(Untouched, One, One, 1).self
RoundTripLong == close(Holding, One, Int2R(2), 1).self
RoundTripShort == cover(short(Untouched, One, One, 1).self, One, Int2R(2), 1).self
Traded == {Untouched, Holding, RoundTripLong, RoundTripShort}

\* For each timestamp, no snapshot (<<>>) or a snapshot at a price (<<p>>).
SnapshotPlans == [1..MaxStamp -> {<<>>} \cup {<<p>> : p \in Prices}]

RECURSIVE take_snapshots(_, _, _)
\* end_date called at the planned timestamps from t on, in order.
take_snapshots(pos, plan, t) ==
    IF t > MaxStamp THEN pos
    ELSE take_snapshots(IF plan[t] = <<>> THEN pos
                        ELSE end_date(pos, t, plan[t][1]).self,
                        plan, t + 1)

PortfolioPositions ==
    {take_snapshots(pos, plan, 1) : pos \in Traded, plan \in SnapshotPlans}

Symbols == {"A", "B"}
FixedCash == {Zero, Int2R(5)}

\* Positive NAV levels and the series made of them.
NavLevels == {Int2R(9), Int2R(10), Int2R(11), Int2R(12)}
NavSeries == UNION {[1..n -> NavLevels] : n \in 0..MaxLen}

\* ------------------------------------------- the objects of a Portfolio
\* Position declares its fields with class-level defaults.  The defaults of
\* inv, trade_log, trade_profit, balance_log and timestamp_log are mutable
\* objects, created once when the class body runs: the model keeps them in
\* a heap, at the addresses <<"Position", field>>, and a Position object
\* holds a reference (an address) for each of these fields.
MutableFields == <<"inv", "trade_log", "trade_profit", "balance_log", "timestamp_log">>

ClassDefault(field) == <<"Position", field>>

\* The heap after the class body of Position ran.
ClassHeap ==
    [a \in {ClassDefault(MutableFields[k]) : k \in 1..Len(MutableFields)} |->
        IF a[2] = "inv" THEN NewInventory ELSE <<>>]

\* An attribute lookup that falls through to the class: every instance
\* refers to the one object created by the class body.
field_default_shared(heap, owner, field) ==
    [heap |-> heap, ref |-> ClassDefault(field)]

\* The value a new instance gets for a field it was not given: BaseModel
\* copies the class-level default for every instance, so the instance owns a
\* new object with the content of the default.
field_default(heap, owner, field) ==
    LET ref == <<owner, field>>
    IN  [heap |-> [a \in DOMAIN heap \cup {ref} |->
                      IF a = ref THEN heap[ClassDefault(field)] ELSE heap[a]],
         ref |-> ref]

NoRefs == [k \in {MutableFields[i] : i \in 1..Len(MutableFields)} |-> <<>>]

\* The references of a new instance, fields k.. of MutableFields still to
\* be given their defaults.
RECURSIVE default_fields(_, _, _, _)
default_fields(heap, owner, k, refs) ==
    IF k > Len(MutableFields)
    THEN [heap |-> heap, refs |-> refs]
    ELSE LET d == field_default(heap, owner, MutableFields[k])
         IN  default_fields(d.heap, owner, k + 1,
                            [refs EXCEPT ![MutableFields[k]] = d.ref])

\* trade.Position(fund=fund0), created for a symbol: the scalar fields are
\* stored in the object, the mutable fields are references into the heap.
Position_init(heap, symbol, fund0) ==
    LET d == default_fields(heap, symbol, 1, NoRefs)
        p == NewPosition(fund0)
    IN  [heap |-> d.heap,
         obj |-> [strategy_exposure |-> p.strategy_exposure,
                  base_rate |-> p.base_rate, fund |-> p.fund, fee |-> p.fee,
                  commision |-> p.commision, refs |-> d.refs]]

\* The Position a reference-holding object stands for: its fields, with the
\* references followed.
Deref(heap, obj) ==
    [strategy_exposure |-> obj.strategy_exposure, base_rate |-> obj.base_rate,
     fund |-> obj.fund, fee |-> obj.fee,
     inv |-> heap[obj.refs.inv], commision |-> obj.commision,
     trade_log |-> heap[obj.refs.trade_log],
     trade_profit |-> heap[obj.refs.trade_profit],
     balance_log |-> heap[obj.refs.balance_log],
     timestamp_log |-> heap[obj.refs.timestamp_log]]

\* The object and the heap after a method left the Position as p: the
\* methods assign the scalar fields, and change the inventory and the logs
\* in place (append, pop, attribute assignment on self.inv).
Store(heap, obj, p) ==
    [heap |-> [a \in DOMAIN heap |->
                  IF a = obj.refs.inv THEN p.inv
                  ELSE IF a = obj.refs.trade_log THEN p.trade_log
                  ELSE IF a = obj.refs.trade_profit THEN p.trade_profit
                  ELSE IF a = obj.refs.balance_log THEN p.balance_log
                  ELSE IF a = obj.refs.timestamp_log THEN p.timestamp_log
                  ELSE heap[a]],
     obj |-> [obj EXCEPT !.strategy_exposure = p.strategy_exposure,
                         !.base_rate = p.base_rate, !.fund = p.fund,
                         !.fee = p.fee, !.commision = p.commision]]

\* The allocations of the portfolios explored, and their fund.
Allocations == [A |-> Rat(1, 2), B |-> Rat(1, 4)]
PortfolioFund == Int2R(8)

\* Portfolio(fund, allocations).positions: one Position per symbol, created
\* one after the other.
RECURSIVE Portfolio_positions(_, _, _, _)
Portfolio_positions(heap, positions, todo, fund0) ==
    IF todo = {}
    THEN [heap |-> heap, positions |-> positions]
    ELSE LET symbol == CHOOSE x \in todo : TRUE
             r == Position_init(heap, symbol, RMul(fund0, Allocations[symbol]))
         IN  Portfolio_positions(r.heap, [positions EXCEPT ![symbol] = r.obj],
                                 todo \ {symbol}, fund0)

Portfolio_init(fund0) ==
    Portfolio_positions(ClassHeap, [x \in DOMAIN Allocations |-> <<>>],
                        DOMAIN Allocations, fund0)

\* No portfolio was created.
NoPortfolio == [heap |-> ClassHeap, positions |-> <<>>]
NoReplay == [alone |-> <<>>, symbol |-> "", op |-> "init", raised |-> NoError]

\* ------------------------------------------------------------- the state
VARIABLES
    strategy_exposure,  \* Position.strategy_exposure
    base_rate,          \* Position.base_rate
    fund,               \* Position.fund
    fee,                \* Position.fee
    inventory,          \* Position.inv.inventory (Inventory.inventory)
    islong,             \* Position.inv.islong (Inventory.islong)
    commision,          \* percentage of Position.commision
    trade_log,          \* Position.trade_log
    trade_profit,       \* Position.trade_profit
    balance_log,        \* Position.balance_log
    timestamp_log,      \* Position.timestamp_log
    call,               \* the last call made: its name, arguments and outcome
    entries,            \* history of a bare Inventory: list, the entries
                        \* <<amount, price>> made since the lot was last empty;
                        \* pure, whether no exit has been made since then
    ncalls,             \* number of calls made on a bare Inventory
    stat,               \* a Statistics object and the outcome of its last call
    series,             \* a NAV series and the metrics computed from it
    portfolio,          \* Portfolio.positions: the Position objects of the
                        \* symbols and the objects their fields refer to
    replay              \* history of a portfolio: each position replayed
                        \* alone, and the last call made on a position

vars == <<strategy_exposure, base_rate, fund, fee, inventory, islong, commision,
          trade_log, trade_profit, balance_log, timestamp_log, call, entries, ncalls,
          stat, series, portfolio, replay>>

\* The Position object of the current state.
Self ==
    [strategy_exposure |-> strategy_exposure, base_rate |-> base_rate,
     fund |-> fund, fee |-> fee,
     inv |-> [inventory |-> inventory, islong |-> islong],
     commision |-> commision, trade_log |-> trade_log,
     trade_profit |-> trade_profit, balance_log |-> balance_log,
     timestamp_log |-> timestamp_log]

\* The Inventory object of the current state.
Inv == [inventory |-> inventory, islong |-> islong]

\* The record of a call.  A call that raised is recorded with its name and
\* its exception only: the arguments of a call that changed nothing are not
\* part of what the program remembers, and keeping them only multiplies states.
Call(op, amount, price, new_exposure, raised, ret) ==
    IF raised = NoError
    THEN [op |-> op, amount |-> amount, price |-> price,
          new_exposure |-> new_exposure, raised |-> raised, ret |-> ret]
    ELSE [op |-> op, amount |-> Zero, price |-> Zero,
          new_exposure |-> Zero, raised |-> raised, ret |-> <<>>]

NoEntries == [list |-> <<>>, pure |-> TRUE]

NoCall == Call("init", Zero, Zero, Zero, NoError, <<>>)

\* The state after a Position method left the object as p.
SetPosition(p) ==
    /\ strategy_exposure' = p.strategy_exposure
    /\ base_rate' = p.base_rate
    /\ fund' = p.fund
    /\ fee' = p.fee
    /\ inventory' = p.inv.inventory
    /\ islong' = p.inv.islong
    /\ commision' = p.commision
    /\ trade_log' = p.trade_log
    /\ trade_profit' = p.trade_profit
    /\ balance_log' = p.balance_log
    /\ timestamp_log' = p.timestamp_log

NoStatistics ==
    [obj |-> NewStatistics(<<>>, Zero), op |-> "init", raised |-> NoError, ret |-> <<>>]

NoSeries ==
    [ser |-> <<>>, drawdowns |-> <<>>, max_drawdown |-> <<>>, op |-> "init",
     raised |-> NoError]

\* Position(fund=f)
InitPosition(f) ==
    /\ strategy_exposure = Zero
    /\ base_rate = One
    /\ fund = f
    /\ fee = Zero
    /\ inventory = <<>>
    /\ islong = TRUE
    /\ commision = DefaultPercentage
    /\ trade_log = <<>>
    /\ trade_profit = <<>>
    /\ balance_log = <<>>
    /\ timestamp_log = <<>>
    /\ call = NoCall
    /\ entries = NoEntries
    /\ ncalls = 0

\* Position(fund=f), as Portfolio.__init__ creates it.
Init ==
    \E f \in Funds :
        /\ InitPosition(f)
        /\ stat = NoStatistics
        /\ series = NoSeries
        /\ portfolio = NoPortfolio
        /\ replay = NoReplay

\* Statistics(config, positions, fixed_cash) over two positions.
InitStat ==
    /\ InitPosition(Zero)
    /\ \E positions \in [Symbols -> PortfolioPositions], c \in FixedCash :
         stat = [NoStatistics EXCEPT !.obj = NewStatistics(positions, c)]
    /\ series = NoSeries
    /\ portfolio = NoPortfolio
    /\ replay = NoReplay

\* A NAV series, before any metric is computed from it.
InitSeries ==
    /\ InitPosition(Zero)
    /\ stat = NoStatistics
    /\ \E ser \in NavSeries : series = [NoSeries EXCEPT !.ser = ser]
    /\ portfolio = NoPortfolio
    /\ replay = NoReplay

CanCall == Len(trade_log) + Len(balance_log) < MaxRecords

\* The runs explored set the base rate and the commission, and deposit cash,
\* before the first trade or snapshot is recorded.
Configuring == CanCall /\ trade_log = <<>> /\ balance_log = <<>>

Long ==
    /\ CanCall
    /\ \E a \in Amounts, p \in Prices :
         \E r \in {long(Self, a, p, None)} :
             /\ SetPosition(r.self)
             /\ call' = Call("long", a, p, Zero, r.raised, <<>>)
    /\ UNCHANGED <<entries, ncalls, stat, series, portfolio, replay>>

Short ==
    /\ CanCall
    /\ \E a \in Amounts, p \in Prices :
         \E r \in {short(Self, a, p, None)} :
             /\ SetPosition(r.self)
             /\ call' = Call("short", a, p, Zero, r.raised, <<>>)
    /\ UNCHANGED <<entries, ncalls, stat, series, portfolio, replay>>

Close ==
    /\ CanCall
    /\ \E a \in Amounts, p \in Prices :
         \E r \in {close(Self, a, p, None)} :
             /\ SetPosition(r.self)
             /\ call' = Call("close", a, p, Zero, r.raised, <<>>)
    /\ UNCHANGED <<entries, ncalls, stat, series, portfolio, replay>>

Cover ==
    /\ CanCall
    /\ \E a \in Amounts, p \in Prices :
         \E r \in {cover(Self, a, p, None)} :
             /\ SetPosition(r.self)
             /\ call' = Call("cover", a, p, Zero, r.raised, <<>>)
    /\ UNCHANGED <<entries, ncalls, stat, series, portfolio, replay>>

Allocate ==
    /\ CanCall
    /\ \E e \in Exposures, p \in Prices :
         \E r \in {allocate(Self, e, p, None)} :
             /\ SetPosition(r.self)
             /\ call' = Call("allocate", Zero, p, e, r.raised, <<>>)
    /\ UNCHANGED <<entries, ncalls, stat, series, portfolio, replay>>

EndDate ==
    /\ CanCall
    /\ \E p \in Prices, t \in Timestamps :
         \E r \in {end_date(Self, t, p)} :
             /\ SetPosition(r.self)
             /\ call' = Call("end_date", Zero, p, Zero, r.raised, <<>>)
    /\ UNCHANGED <<entries, ncalls, stat, series, portfolio, replay>>

UpdateBaseRate ==
    /\ Configuring
    /\ \E rate \in Rates :
         \E r \in {update_base_rate(Self, rate)} :
             /\ SetPosition(r.self)
             /\ call' = Call("update_base_rate", rate, Zero, Zero, r.raised, <<>>)
    /\ UNCHANGED <<entries, ncalls, stat, series, portfolio, replay>>

\* position.set_commision(TradePercentage(pct)): the constructor runs first,
\* and when it raises the position is never reached.
SetCommision ==
    /\ Configuring
    /\ \E pct \in Percentages :
         \E c \in {TradePercentage(pct)} :
             \E r \in {IF c.raised # NoError THEN Raise(Self, c.raised)
                       ELSE set_commision(Self, c.percentage)} :
                 /\ SetPosition(r.self)
                 /\ call' = Call("set_commision", pct, Zero, Zero, r.raised, <<>>)
    /\ UNCHANGED <<entries, ncalls, stat, series, portfolio, replay>>

ExtractFund ==
    /\ CanCall
    /\ \E r \in {extract_fund(Self)} :
         /\ SetPosition(r.self)
         /\ call' = Call("extract_fund", Zero, Zero, Zero, r.raised, r.ret)
    /\ UNCHANGED <<entries, ncalls, stat, series, portfolio, replay>>

DepositFund ==
    /\ Configuring
    /\ \E f \in Funds :
         \E r \in {deposit_fund(Self, f)} :
             /\ SetPosition(r.self)
             /\ call' = Call("deposit_fund", f, Zero, Zero, r.raised, <<>>)
    /\ UNCHANGED <<entries, ncalls, stat, series, portfolio, replay>>

\* ------------------------------------------- calls on a bare Inventory
PositionFields ==
    <<strategy_exposure, base_rate, fund, fee, commision, trade_log, trade_profit,
      balance_log, timestamp_log>>

CanCallInventory == ncalls < MaxCalls

\* The state after an Inventory method returned r.
SetInventory(op, a, p, r) ==
    /\ inventory' = r.inv.inventory
    /\ islong' = r.inv.islong
    /\ call' = Call(op, a, p, Zero, r.raised, r.ret)
    /\ ncalls' = ncalls + 1
    /\ UNCHANGED PositionFields
    /\ UNCHANGED <<stat, series, portfolio, replay>>

AfterEntry(r, a, p) ==
    IF r.raised = NoError /\ entries.pure
    THEN [entries EXCEPT !.list = Append(@, <<RAbs(a), p>>)]
    ELSE entries

AfterExit(r) ==
    IF r.raised # NoError \/ r.ret = <<>> THEN entries
    ELSE IF r.inv.inventory = <<>> THEN NoEntries
    ELSE [entries EXCEPT !.pure = FALSE]

InvGoLong ==
    /\ CanCallInventory
    /\ SetInventory("Inventory.go_long", Zero, Zero, go_long(Inv))
    /\ UNCHANGED entries

InvGoShort ==
    /\ CanCallInventory
    /\ SetInventory("Inventory.go_short", Zero, Zero, go_short(Inv))
    /\ UNCHANGED entries

InvLong ==
    /\ CanCallInventory
    /\ \E a \in Amounts, p \in Prices :
         LET r == Inventory_long(Inv, a, p)
         IN  /\ SetInventory("Inventory.long", a, p, r)
             /\ entries' = AfterEntry(r, a, p)

InvShort ==
    /\ CanCallInventory
    /\ \E a \in Amounts, p \in Prices :
         LET r == Inventory_short(Inv, a, p)
         IN  /\ SetInventory("Inventory.short", a, p, r)
             /\ entries' = AfterEntry(r, a, p)

InvClose ==
    /\ CanCallInventory
    /\ \E a \in Amounts, p \in Prices :
         LET r == Inventory_close(Inv, a, p)
         IN  /\ SetInventory("Inventory.close", a, p, r)
             /\ entries' = AfterExit(r)

InvCover ==
    /\ CanCallInventory
    /\ \E a \in Amounts, p \in Prices :
         LET r == Inventory_cover(Inv, a, p)
         IN  /\ SetInventory("Inventory.cover", a, p, r)
             /\ entries' = AfterExit(r)

NextInv ==
    \/ InvGoLong
    \/ InvGoShort
    \/ InvLong
    \/ InvShort
    \/ InvClose
    \/ InvCover

\* A bare Inventory() driven by direct calls.
SpecInv == Init /\ [][NextInv]_vars

\* --------------------------------------- calls on a Statistics object
PositionVars ==
    <<strategy_exposure, base_rate, fund, fee, inventory, islong, commision,
      trade_log, trade_profit, balance_log, timestamp_log, call, entries, ncalls>>

Calculate ==
    /\ \E r \in {Statistics_calculate(stat.obj)} :
         stat' = [obj |-> r.self, op |-> "calculate", raised |-> r.raised, ret |-> <<>>]
    /\ UNCHANGED PositionVars
    /\ UNCHANGED <<series, portfolio, replay>>

TradeSummary ==
    /\ \E r \in {trade_summary(stat.obj)} :
         stat' = [obj |-> stat.obj, op |-> "trade_summary", raised |-> r.raised,
                  ret |-> r.ret]
    /\ UNCHANGED PositionVars
    /\ UNCHANGED <<series, portfolio, replay>>

NextStat ==
    \/ Calculate
    \/ TradeSummary

\* A Statistics object over the positions of a portfolio.
SpecStat == InitStat /\ [][NextStat]_vars

\* ------------------------------------------------- calls of the metrics
Drawdowns ==
    /\ series' = [series EXCEPT !.drawdowns = <<drawdowns(series.ser)>>,
                                !.op = "drawdowns", !.raised = NoError]
    /\ UNCHANGED PositionVars
    /\ UNCHANGED <<stat, portfolio, replay>>

MaxDrawdown ==
    /\ \E r \in {max_drawdown(series.ser)} :
         series' = [series EXCEPT !.max_drawdown = r.ret,
                                 !.op = "max_drawdown", !.raised = r.raised]
    /\ UNCHANGED PositionVars
    /\ UNCHANGED <<stat, portfolio, replay>>

NextSeries ==
    \/ Drawdowns
    \/ MaxDrawdown

\* The metrics applied to a NAV series.
SpecSeries == InitSeries /\ [][NextSeries]_vars

Next ==
    \/ Long
    \/ Short
    \/ Close
    \/ Cover
    \/ Allocate
    \/ EndDate
    \/ UpdateBaseRate
    \/ SetCommision

Spec == Init /\ [][Next]_vars

\* Position(fund=4) driven by allocate alone.
InitAlloc ==
    /\ InitPosition(Int2R(4))
    /\ stat = NoStatistics
    /\ series = NoSeries
    /\ portfolio = NoPortfolio
    /\ replay = NoReplay

AllocateDrift ==
    /\ CanCall
    /\ \E e \in DriftExposures, p \in DriftPrices :
         \E r \in {allocate(Self, e, p, None)} :
             /\ SetPosition(r.self)
             /\ call' = Call("allocate", Zero, p, e, r.raised, <<>>)
    /\ UNCHANGED <<entries, ncalls, stat, series, portfolio, replay>>

SpecAlloc == InitAlloc /\ [][AllocateDrift]_vars

\* ------------------------------- a position that is only traded
\* Position(fund=4) driven by long, short, close, cover and allocate alone,
\* until MaxTrades trades are logged.
InitLedger ==
    /\ InitPosition(Int2R(4))
    /\ stat = NoStatistics
    /\ series = NoSeries
    /\ portfolio = NoPortfolio
    /\ replay = NoReplay

CanTrade == Len(trade_log) < MaxTrades

LedgerLong ==
    /\ CanTrade
    /\ \E a \in Amounts, p \in Prices :
         \E r \in {long(Self, a, p, None)} :
             /\ SetPosition(r.self)
             /\ call' = Call("long", a, p, Zero, r.raised, <<>>)
    /\ UNCHANGED <<entries, ncalls, stat, series, portfolio, replay>>

LedgerShort ==
    /\ CanTrade
    /\ \E a \in Amounts, p \in Prices :
         \E r \in {short(Self, a, p, None)} :
             /\ SetPosition(r.self)
             /\ call' = Call("short", a, p, Zero, r.raised, <<>>)
    /\ UNCHANGED <<entries, ncalls, stat, series, portfolio, replay>>

LedgerClose ==
    /\ CanTrade
    /\ \E a \in Amounts, p \in Prices :
         \E r \in {close(Self, a, p, None)} :
             /\ SetPosition(r.self)
             /\ call' = Call("close", a, p, Zero, r.raised, <<>>)
    /\ UNCHANGED <<entries, ncalls, stat, series, portfolio, replay>>

LedgerCover ==
    /\ CanTrade
    /\ \E a \in Amounts, p \in Prices :
         \E r \in {cover(Self, a, p, None)} :
             /\ SetPosition(r.self)
             /\ call' = Call("cover", a, p, Zero, r.raised, <<>>)
    /\ UNCHANGED <<entries, ncalls, stat, series, portfolio, replay>>

LedgerAllocate ==
    /\ CanTrade
    /\ \E e \in Exposures, p \in Prices :
         \E r \in {allocate(Self, e, p, None)} :
             /\ SetPosition(r.self)
             /\ call' = Call("allocate", Zero, p, e, r.raised, <<>>)
    /\ UNCHANGED <<entries, ncalls, stat, series, portfolio, replay>>

NextLedger ==
    \/ LedgerLong
    \/ LedgerShort
    \/ LedgerClose
    \/ LedgerCover
    \/ LedgerAllocate

SpecLedger == InitLedger /\ [][NextLedger]_vars

NextFund ==
    \/ Next
    \/ ExtractFund
    \/ DepositFund

\* A Position whose cash is also withdrawn and deposited between the calls.
SpecFund == Init /\ [][NextFund]_vars

\* ============================================================== claims
Completed(op) == call.op = op /\ call.raised = NoError

\* The trade-log entries a step appends, and their tags.
Appended == SubSeq(trade_log', Len(trade_log) + 1, Len(trade_log'))
Tags(entrylist) == [i \in 1..Len(entrylist) |-> entrylist[i].trade]

\* The ledger fields a no-op must leave alone.
Ledger ==
    <<fund, fee, inventory, islong, strategy_exposure, trade_log, trade_profit,
      balance_log, timestamp_log>>

\* The ten-case table: the primitives by the sign of the old exposure and the
\* sign and magnitude of the new one (old # new).
TableTags(old, new) ==
    IF RGt(old, Zero)
    THEN IF new = Zero THEN <<"CLOSE">>
         ELSE IF RGt(new, old) THEN <<"LONG">>
         ELSE IF RGt(new, Zero) THEN <<"CLOSE">>
         ELSE <<"CLOSE", "SHORT">>
    ELSE IF old = Zero
    THEN IF RGt(new, Zero) THEN <<"LONG">> ELSE <<"SHORT">>
    ELSE IF new = Zero THEN <<"COVER">>
         ELSE IF RLt(new, old) THEN <<"SHORT">>
         ELSE IF RLt(new, Zero) THEN <<"COVER">>
         ELSE <<"COVER", "LONG">>

\* C1: a completed allocate(new_exposure, price) with new_exposure different
\* from strategy_exposure appends to the trade log exactly the primitives of
\* the ten-case table, in the table's order; no call of allocate, completed or
\* not, appends more than two entries, and every case appends at least one.
C1_AllocateTable ==
    [][ call'.op = "allocate" =>
          /\ Len(trade_log') - Len(trade_log) <= 2
          /\ SubSeq(trade_log', 1, Len(trade_log)) = trade_log
          /\ (call'.raised = NoError /\ call'.new_exposure # strategy_exposure) =>
                /\ Tags(Appended) = TableTags(strategy_exposure, call'.new_exposure)
                /\ Len(Appended) \in {1, 2} ]_vars

\* A close-then-short transition has completed.
C1_Witness ==
    /\ Completed("allocate")
    /\ Len(trade_log) >= 3
    /\ trade_log[Len(trade_log) - 1].trade = "CLOSE"
    /\ trade_log[Len(trade_log)].trade = "SHORT"
    /\ RLt(strategy_exposure, Zero)

\* C2: in every reachable state, allocate with new_exposure equal to the
\* current strategy_exposure returns normally at any price and leaves the
\* whole Position (fund, fee, inventory, direction, strategy_exposure and the
\* three logs) unchanged; and every step that is such a call changes none of
\* these fields.
C2_NoOpCall ==
    \A p \in Prices \cup {Zero} :
        allocate(Self, strategy_exposure, p, None) = Return(Self)

C2_NoOpStep ==
    (call'.op = "allocate" /\ call'.raised = NoError
        /\ call'.new_exposure = strategy_exposure) => UNCHANGED Ledger

C2_AllocateSameIsNoOp == [](C2_NoOpCall) /\ [][C2_NoOpStep]_vars

\* A no-op allocate(0) was made on a position that holds a lot (opened by
\* the primitives while strategy_exposure stayed 0).
C2_Witness ==
    /\ Completed("allocate")
    /\ call.new_exposure = Zero
    /\ strategy_exposure = Zero
    /\ inventory # <<>>
    /\ trade_log # <<>>

\* C3: after a completed allocate(e, p), strategy_exposure = e; a second
\* allocate(e, p') at any price p' returns normally and leaves the Position
\* unchanged, so a step that is the second call appends no trade-log or
\* trade-profit entry and changes neither fund, fee nor the inventory.
C3_AfterAllocate ==
    Completed("allocate") =>
        /\ strategy_exposure = call.new_exposure
        /\ \A p \in Prices : allocate(Self, call.new_exposure, p, None) = Return(Self)

C3_SecondCall ==
    (Completed("allocate") /\ call'.op = "allocate" /\ call'.raised = NoError
        /\ call'.new_exposure = call.new_exposure)
    => UNCHANGED <<trade_log, trade_profit, fund, fee, inventory, islong>>

C3_AllocateIdempotent == [](C3_AfterAllocate) /\ [][C3_SecondCall]_vars

\* allocate(1/2, p) bought, and a later allocate(1/2, p') at another price
\* completed without a second trade.
C3_Witness ==
    /\ Completed("allocate")
    /\ call.new_exposure = Rat(1, 2)
    /\ Len(trade_log) = 1
    /\ trade_log[1].trade = "LONG"
    /\ trade_log[1].price # call.price
    /\ fund = Int2R(2)

\* A long on a flat position followed by a close of the same amount at the
\* same price, and nothing else traded, with base_rate = 1.
RoundTrip ==
    /\ Completed("close")
    /\ base_rate = One
    /\ Len(trade_log) = 2
    /\ trade_log[1].trade = "LONG"
    /\ trade_log[2].trade = "CLOSE"
    /\ trade_log[2].amount = RNeg(trade_log[1].amount)
    /\ trade_log[2].price = trade_log[1].price
    /\ Len(trade_profit) = 1

\* The commissions charged on the two legs of the round trip.
RoundTripFees ==
    RMul(Int2R(2), RMul(RMul(RAbs(call.amount), call.price), commision))

\* C4 as stated: the realized_profit recorded by the close of a zero
\* price-move round trip is minus the sum of the two commissions.
C4_Original ==
    RoundTrip => trade_profit[1].realized_profit = RNeg(RoundTripFees)

\* C4 as amended: the realized_profit recorded by the close of a zero
\* price-move round trip is 0; the two commissions are charged to fee alone,
\* which ends at their sum, and the cash is back at its initial value.
C4_RoundTripProfitIsZero ==
    RoundTrip =>
        /\ trade_profit[1].realized_profit = Zero
        /\ trade_profit[1].realized_profit_pct = Zero
        /\ fee = RoundTripFees
        /\ fee = RAdd(trade_log[1].fee, trade_log[2].fee)
        /\ fund \in Funds

\* A round trip of two units was made with the cash to pay commissions from.
C4_Witness ==
    /\ RoundTrip
    /\ RAbs(call.amount) = Int2R(2)
    /\ RGt(fee, Zero)
    /\ fund = Int2R(4)

RECURSIVE SumAmount(_)
SumAmount(list) ==
    IF list = <<>> THEN Zero
    ELSE RAdd(SumAmount(Tail(list)), Head(list)[1])

RECURSIVE SumNotional(_)
SumNotional(list) ==
    IF list = <<>> THEN Zero
    ELSE RAdd(SumNotional(Tail(list)), RMul(Head(list)[1], Head(list)[2]))

\* C5: on a bare Inventory, after the entries (a1,p1),...,(an,pn) made since
\* the lot was last empty with no exit in between, the lot holds
\* a1+...+an at the average price (a1*p1+...+an*pn)/(a1+...+an), get_amount()
\* has that magnitude and get_price() that value; and every completed
\* long/short returns |amount| * price.
C5_WeightedAverage ==
    /\ (entries.pure /\ entries.list # <<>>) =>
          /\ Len(inventory) = 1
          /\ inventory[1][1] = SumAmount(entries.list)
          /\ RAbs(Inventory_get_amount(Inv)) = SumAmount(entries.list)
          /\ Inventory_get_price(Inv) =
                RDiv(SumNotional(entries.list), SumAmount(entries.list))
    /\ (call.op \in {"Inventory.long", "Inventory.short"} /\ call.raised = NoError) =>
          call.ret = <<RMul(RAbs(call.amount), call.price)>>

\* Two entries at different prices and of different sizes have been made.
C5_Witness ==
    /\ entries.pure
    /\ Len(entries.list) >= 2
    /\ entries.list[1][2] # entries.list[2][2]
    /\ entries.list[1][1] # entries.list[2][1]
    /\ call.op \in {"Inventory.long", "Inventory.short"}
    /\ call.raised = NoError

\* C6 as stated: no close or cover of more than the held lot size (beyond
\* the tolerance) returns normally.
C6_ExcessExitFails ==
    [][ (call'.op \in {"close", "cover"} /\ call'.raised = NoError /\ inventory # <<>>)
          => RLe(RAbs(call'.amount), RAdd(inventory[1][1], PRECISION)) ]_vars

\* C7 as stated: no close or cover made on an empty Inventory returns
\* normally.
C7_ExitOnEmptyFails ==
    [][ (inventory = <<>> /\ call'.op \in {"Inventory.close", "Inventory.cover"})
          => call'.raised # NoError ]_vars

\* C8 as stated: no step changes the direction flag while the lot is
\* non-empty before the step.
C8_Original == [][ inventory # <<>> => islong' = islong ]_vars

\* go_long() and go_short() fail on a non-empty lot and leave it alone, and
\* the inventory list holds at most one lot.
C8_OneLot ==
    /\ Len(inventory) <= 1
    /\ inventory # <<>> =>
          /\ go_long(Inv) = [inv |-> Inv, raised |-> "AssertionError", ret |-> <<>>]
          /\ go_short(Inv) = [inv |-> Inv, raised |-> "AssertionError", ret |-> <<>>]

\* A step that starts with a non-empty lot and changes the flag is an
\* allocate whose first primitive, a close or cover of the whole lot, emptied
\* the lot before the flag was set.
C8_FlipStep ==
    (inventory # <<>> /\ islong' # islong) =>
        /\ call'.op = "allocate"
        /\ Len(Appended) >= 1
        /\ Appended[1].trade = (IF islong THEN "CLOSE" ELSE "COVER")
        /\ RAbs(Appended[1].amount) = RAbs(inventory[1][1])
        /\ Len(trade_profit') = Len(trade_profit) + 1

\* C8 as amended: the flag changes only while the lot is empty.  go_long()
\* and go_short() fail on a non-empty lot; no long, short, close or cover
\* call, failing or not, changes islong when the lot is non-empty before the
\* call; an allocate call does so only in its close-then-short and
\* cover-then-long cases, after its first primitive has emptied the lot; the
\* inventory list never holds more than one lot.
C8_DirectionOnlyWhenEmpty == [](C8_OneLot) /\ [][C8_FlipStep]_vars

\* A cover-then-long allocate has turned a short lot into a long one.
C8_Witness ==
    /\ Completed("allocate")
    /\ islong
    /\ inventory # <<>>
    /\ Len(trade_log) >= 3
    /\ trade_log[Len(trade_log) - 1].trade = "COVER"
    /\ trade_log[Len(trade_log)].trade = "LONG"

\* The notional and the commission of the call just made.
CallNotional == RMul(RAbs(call'.amount), call'.price)
CallCommission == RMul(RMul(call'.price, RAbs(call'.amount)), commision)

\* C9: a completed primitive called with amount a (of either sign) and price
\* p changes the cash by |a|*p (long and cover pay it, short and close
\* receive it) and adds commission(p, |a|) to fee.
C9_CashAndFee ==
    [][ /\ (call'.op \in {"long", "cover"} /\ call'.raised = NoError) =>
              /\ fund' = RSub(fund, CallNotional)
              /\ fee' = RAdd(fee, CallCommission)
        /\ (call'.op \in {"short", "close"} /\ call'.raised = NoError) =>
              /\ fund' = RAdd(fund, CallNotional)
              /\ fee' = RAdd(fee, CallCommission) ]_vars

\* A cover called with a negative amount has completed and was charged.
C9_Witness ==
    /\ Completed("cover")
    /\ RLt(call.amount, Zero)
    /\ RGt(fee, Zero)
    /\ trade_log[Len(trade_log)].amount = RAbs(call.amount)

IsPrefix(a, b) == Len(a) <= Len(b) /\ SubSeq(b, 1, Len(a)) = a

Exits == {i \in 1..Len(trade_log) : trade_log[i].trade \in {"CLOSE", "COVER"}}

\* What a completed primitive appends: one trade-log entry with the tag and
\* the signed amount, and for close and cover one trade-profit record.
C10_Primitive(op, tag, sign, profit_tag) ==
    (call'.op = op /\ call'.raised = NoError) =>
        /\ Len(Appended) = 1
        /\ Appended[1].trade = tag
        /\ Appended[1].amount = RMul(Int2R(sign), RAbs(call'.amount))
        /\ RGt(RMul(Int2R(sign), Appended[1].amount), Zero)
        /\ Appended[1].price = call'.price
        /\ IF profit_tag = ""
           THEN trade_profit' = trade_profit
           ELSE /\ Len(trade_profit') = Len(trade_profit) + 1
                /\ trade_profit'[Len(trade_profit')].trade = profit_tag

C10_Step ==
    /\ IsPrefix(trade_log, trade_log')
    /\ IsPrefix(trade_profit, trade_profit')
    /\ IsPrefix(balance_log, balance_log')
    /\ IsPrefix(timestamp_log, timestamp_log')
    /\ C10_Primitive("long", "LONG", 1, "")
    /\ C10_Primitive("short", "SHORT", -1, "")
    /\ C10_Primitive("close", "CLOSE", -1, "LONG")
    /\ C10_Primitive("cover", "COVER", 1, "SHORT")
    /\ (call'.op \in {"long", "short", "close", "cover"} /\ call'.raised # NoError) =>
          UNCHANGED <<trade_log, trade_profit>>

\* C10: no step changes or removes an entry of a log; a completed long,
\* short, close or cover appends exactly one trade-log entry tagged LONG,
\* SHORT, CLOSE or COVER, logged positive for LONG and COVER and negative for
\* SHORT and CLOSE; close and cover append one trade-profit record (tagged
\* LONG and SHORT), long and short none; a failing primitive appends nothing;
\* and len(trade_profit) is the number of CLOSE and COVER entries.
C10_LogsAppendOnly ==
    [](Len(trade_profit) = Cardinality(Exits)) /\ [][C10_Step]_vars

\* A short was opened and then covered: two trade-log entries, one
\* trade-profit record tagged SHORT.
C10_Witness ==
    /\ Completed("cover")
    /\ Len(trade_log) = 2
    /\ trade_log[1].trade = "SHORT"
    /\ Len(trade_profit) = 1
    /\ trade_profit[1].trade = "SHORT"

\* C11 as stated: percentages outside [0, 1) being rejected when a
\* TradePercentage is constructed, the commission of a trade is never
\* negative, and so no step of a Position (long, short, close, cover,
\* allocate, end_date, update_base_rate, set_commision) lowers its
\* cumulative fee.
C11_FeeNeverDecreases == [][RLe(fee, fee')]_vars

\* A flat position with cash: no lot, recorded exposure 0, fund > 0.
C12_Flat == inventory = <<>> /\ strategy_exposure = Zero /\ RGt(fund, Zero)

\* What the claim expects of allocate(e, p) from the flat position with fund
\* F: one trade of F*|e|/p, a LONG for e > 0 and a SHORT for e < 0.
C12_Expected(r, e, p) ==
    LET q == RDiv(RMul(fund, RAbs(e)), p)
        signed == IF RGt(e, Zero) THEN q ELSE RNeg(q)
    IN  /\ r.raised = NoError
        /\ Len(r.self.trade_log) = Len(trade_log) + 1
        /\ SubSeq(r.self.trade_log, 1, Len(trade_log)) = trade_log
        /\ r.self.trade_log[Len(trade_log) + 1] =
              TradeEntry(None, signed, calculate(commision, p, q), p,
                         IF RGt(e, Zero) THEN "LONG" ELSE "SHORT")
        /\ r.self.trade_profit = trade_profit
        /\ r.self.fund = RMul(fund, RSub(One, e))
        /\ r.self.fee = RAdd(fee, calculate(commision, p, q))
        /\ get_amount(r.self) = signed
        /\ r.self.inv.inventory = <<<<q, p>>>>
        /\ r.self.strategy_exposure = e

\* C12: from a flat position with fund F > 0 and recorded exposure 0,
\* allocate(e, p) with e > 0 issues exactly one long of F*e/p, leaving fund
\* F*(1 - e), fee raised by the commission of that trade and a lot of
\* F*e/p; with e < 0 it issues exactly one short of F*|e|/p, leaving fund
\* F*(1 + |e|) and a held amount of -F*|e|/p.
C12_AllocateFromFlat ==
    C12_Flat =>
        \A e \in Exposures \ {Zero}, p \in Prices :
            \A r \in {allocate(Self, e, p, None)} : C12_Expected(r, e, p)

\* allocate(1/2, 2) on the fund of 4 has completed: one LONG of 1 at 2, fund
\* 2, a lot of 1.
C12_Witness ==
    /\ Completed("allocate")
    /\ call.new_exposure = Rat(1, 2)
    /\ call.price = Int2R(2)
    /\ Len(trade_log) = 1
    /\ trade_log[1].trade = "LONG"
    /\ trade_log[1].amount = One
    /\ fund = Int2R(2)
    /\ get_amount(Self) = One
    /\ strategy_exposure = Rat(1, 2)

RECURSIVE LogNotional(_)
\* The cash paid by the trades of a list of trade-log entries: LONG and COVER
\* are logged positive (cash out), SHORT and CLOSE negative (cash in).
LogNotional(entrylist) ==
    IF entrylist = <<>> THEN Zero
    ELSE RAdd(RMul(Head(entrylist).amount, Head(entrylist).price),
              LogNotional(Tail(entrylist)))

RECURSIVE LogFees(_)
LogFees(entrylist) ==
    IF entrylist = <<>> THEN Zero
    ELSE RAdd(Head(entrylist).fee, LogFees(Tail(entrylist)))

C13_Holdings == <<fund, fee, inventory, islong>>

C13_Step ==
    /\ call'.op \in {"end_date", "update_base_rate", "set_commision"} =>
          UNCHANGED C13_Holdings
    /\ (call'.op = "allocate" /\ call'.raised = NoError /\ Appended = <<>>) =>
          UNCHANGED C13_Holdings
    /\ call'.op = "allocate" =>
          /\ fund' = RSub(fund, LogNotional(Appended))
          /\ fee' = RAdd(fee, LogFees(Appended))
    /\ (fund' # fund \/ fee' # fee) =>
          call'.op \in {"long", "short", "close", "cover", "allocate",
                        "extract_fund", "deposit_fund"}

\* C13: end_date, update_base_rate, set_commision and a completed allocate
\* that issues no trade leave fund, fee and the inventory as they were; an
\* allocate, completed or not, changes fund and fee by exactly the cash and the commissions of
\* the trades it logs; and a step that changes fund or fee is a long, short,
\* close, cover, allocate, extract_fund or deposit_fund.  (The accessors
\* summary, get_amount, get_gav, get_nav, enough_amount and the log getters
\* are expressions of the state and assign nothing.)
C13_FundAndFeeFrame == [][C13_Step]_vars

\* A snapshot was taken of a position holding a lot, with fees paid and
\* cash left, after the base rate was changed.
C13_Witness ==
    /\ Completed("end_date")
    /\ base_rate = Int2R(2)
    /\ inventory # <<>>
    /\ RGt(fee, Zero)
    /\ RGt(fund, Zero)
    /\ Len(balance_log) = 1

\* The relations between the values captured in one balance-log record.
C14_Record(rec) ==
    LET value == RAdd(rec.fund, RMul(rec.amount, rec.price))
    IN  /\ rec.gav = value
        /\ rec.nav = RSub(rec.gav, rec.fee)
        /\ rec.exposure =
              IF rec.amount = Zero \/ RLe(value, Zero) THEN Zero
              ELSE RSub(One, RDiv(rec.fund, value))

C14_Step ==
    IF call'.op = "end_date"
    THEN /\ Len(balance_log') = Len(balance_log) + 1
         /\ Len(timestamp_log') = Len(timestamp_log) + 1
         /\ SubSeq(balance_log', 1, Len(balance_log)) = balance_log
         /\ SubSeq(timestamp_log', 1, Len(timestamp_log)) = timestamp_log
         /\ LET rec == balance_log'[Len(balance_log')]
            IN  /\ rec.fund = fund
                /\ rec.amount = get_amount(Self)
                /\ rec.fee = fee
                /\ rec.strategy_exposure = strategy_exposure
                /\ rec.base_rate = base_rate
                /\ rec.price = call'.price
                /\ rec.timestamp = timestamp_log'[Len(timestamp_log')]
    ELSE UNCHANGED <<balance_log, timestamp_log>>

\* C14: each end_date(timestamp, price) appends exactly one balance-log
\* record, holding the fund, amount and fee of that moment, and one
\* timestamp-log entry, and no other call touches the two logs, so they
\* always have the same length; and every record satisfies
\* gav = fund + amount*price, nav = gav - fee and
\* exposure = cal_exposure(fund, amount, price) for the values it holds.
C14_BalanceLog ==
    /\ [](/\ Len(balance_log) = Len(timestamp_log)
          /\ \A i \in 1..Len(balance_log) :
                /\ C14_Record(balance_log[i])
                /\ timestamp_log[i] = balance_log[i].timestamp)
    /\ [][C14_Step]_vars

\* A snapshot of a position holding a lot after a fee was paid: nav is below
\* gav and the measured exposure is neither 0 nor 1.
C14_Witness ==
    /\ Completed("end_date")
    /\ Len(balance_log) = 1
    /\ balance_log[1].amount # Zero
    /\ RGt(balance_log[1].fee, Zero)
    /\ RLt(balance_log[1].nav, balance_log[1].gav)
    /\ RGt(balance_log[1].exposure, Zero)
    /\ RLt(balance_log[1].exposure, One)

\* The alignment the claim describes: at each timestamp of the union, a
\* position contributes the value of its latest snapshot taken at or before
\* that timestamp (nothing when it has none yet).
C15_ForwardFill(frames, column) ==
    [t \in UNION {frames[s].index : s \in DOMAIN frames} |->
        [s \in DOMAIN frames |->
            LET earlier == {u \in frames[s].index : u <= t}
            IN  IF earlier = {} THEN <<>>
                ELSE <<frames[s].row[CHOOSE u \in earlier :
                                       \A w \in earlier : w <= u][column]>>]]

C15_Expected(column) ==
    LET frames == [s \in DOMAIN stat.obj.positions |->
                      get_balance_log(stat.obj.positions[s])]
    IN  add_scalar(sum_axis1(C15_ForwardFill(frames, column)), stat.obj.fixed_cash)

\* C15 as stated: after Statistics.calculate, the NAV series (and the GAV
\* series) has, at every timestamp of the union of the positions'
\* timestamps, the value fixed_cash plus the sum over the symbols of the
\* position's nav (gav) at that timestamp, a position without a record there
\* contributing its most recent earlier value.
C15_ForwardFilledSum ==
    (stat.op = "calculate" /\ stat.raised = NoError) =>
        /\ stat.obj.equity = <<C15_Expected("nav")>>
        /\ stat.obj.gav = <<C15_Expected("gav")>>

\* calculate has completed: the trade-profit frame is assigned and indexed
\* by timestamp.
C16_Calculated ==
    /\ stat.obj.trade_profit # <<>>
    /\ "trade" \in stat.obj.trade_profit[1].columns
    /\ "timestamp" \notin stat.obj.trade_profit[1].columns

C16_Counts(part) == part.winning_trades + part.lossing_trades = part.total_trades

\* C16 as stated: Statistics.trade_summary, called after calculate, returns
\* without error a breakdown for All, Long and Short trades: Long counts the
\* trade-profit records tagged LONG, Short those tagged SHORT, the total of
\* All is the total of Long plus the total of Short, and in each of the
\* three winning trades plus lossing trades is the total.
C16_TradeSummary ==
    (stat.op = "trade_summary" /\ C16_Calculated) =>
        /\ stat.raised = NoError
        /\ LET rows == stat.obj.trade_profit[1].rows
               breakdown == stat.ret[1]
           IN  /\ breakdown.Long.total_trades =
                     Cardinality({r \in rows : r.rec.trade = "LONG"})
               /\ breakdown.Short.total_trades =
                     Cardinality({r \in rows : r.rec.trade = "SHORT"})
               /\ breakdown.All.total_trades =
                     breakdown.Long.total_trades + breakdown.Short.total_trades
               /\ C16_Counts(breakdown.All)
               /\ C16_Counts(breakdown.Long)
               /\ C16_Counts(breakdown.Short)

\* The largest of ser[1..t].
C17_Peak(ser, t) ==
    CHOOSE m \in {ser[k] : k \in 1..t} : \A k \in 1..t : RLe(ser[k], m)

C17_Drawdown(ser, t) == RSub(One, RDiv(ser[t], C17_Peak(ser, t)))

C17_NonDecreasing(ser) == \A t \in 1..(Len(ser) - 1) : RLe(ser[t], ser[t + 1])

\* C17: for a series of positive NAV values, drawdowns(ser)[t] is
\* 1 - ser[t] / max(ser[0..t]); it is 0 everywhere when the series never
\* decreases; every drawdown is at least 0 and less than 1; and
\* max_drawdown(ser) is the largest of them (1/4 for the series 100, 120, 90,
\* 110, here in tens).
C17_Drawdowns ==
    /\ series.drawdowns # <<>> =>
         LET dd == series.drawdowns[1]
         IN  /\ DOMAIN dd = 1..Len(series.ser)
             /\ \A t \in 1..Len(series.ser) :
                   /\ dd[t] = C17_Drawdown(series.ser, t)
                   /\ RLe(Zero, dd[t])
                   /\ RLt(dd[t], One)
                   /\ C17_NonDecreasing(series.ser) => dd[t] = Zero
    /\ series.max_drawdown # <<>> =>
         /\ \E t \in 1..Len(series.ser) :
               series.max_drawdown[1] = C17_Drawdown(series.ser, t)
         /\ \A t \in 1..Len(series.ser) :
               RLe(C17_Drawdown(series.ser, t), series.max_drawdown[1])
         /\ series.ser = <<Int2R(10), Int2R(12), Int2R(9), Int2R(11)>> =>
               series.max_drawdown[1] = Rat(1, 4)

\* Both metrics were computed for the series 10, 12, 9, 11: the drawdowns
\* are 0, 0, 1/4, 1/12 and the largest is 1/4.
C17_Witness ==
    /\ series.ser = <<Int2R(10), Int2R(12), Int2R(9), Int2R(11)>>
    /\ series.drawdowns = <<<<Zero, Zero, Rat(1, 4), Rat(1, 12)>>>>
    /\ series.max_drawdown = <<Rat(1, 4)>>

\* The exposure measured before and after a step at the price of its call.
C18_Before == cal_exposure(fund, get_amount(Self), call'.price)
C18_After ==
    cal_exposure(fund', Inventory_get_amount([inventory |-> inventory',
                                              islong |-> islong']), call'.price)

\* C18 as stated, for the calls that trade: in a run of allocate calls at
\* arbitrary positive prices, right after a completed allocate(new_exposure,
\* price) the exposure measured at that price equals new_exposure, and the
\* trade issued buys (LONG, COVER) when new_exposure is above the exposure
\* measured before the call and sells (SHORT, CLOSE) when it is below.
C18_ReachesTarget ==
    [][ (call'.op = "allocate" /\ call'.raised = NoError /\ Len(Appended) = 1) =>
           /\ C18_After = call'.new_exposure
           /\ RGt(call'.new_exposure, C18_Before) =>
                 Appended[1].trade \in {"LONG", "COVER"}
           /\ RLt(call'.new_exposure, C18_Before) =>
                 Appended[1].trade \in {"SHORT", "CLOSE"} ]_vars

\* C19 as stated: in a run of allocate calls on a position seeded with a
\* positive fund, no close or cover is issued with an amount larger than
\* the amount held when it is issued.
C19_NoOversizedExit ==
    [][ \A i \in 1..Len(Appended) :
           Appended[i].trade \in {"CLOSE", "COVER"} =>
               RLe(RAbs(Appended[i].amount), RAbs(get_amount(Self))) ]_vars

\* What the claim expects of an exit of amt at price p from the lot
\* <<size, avg>> of the current state.
C20_Expected(r, amt, p) ==
    LET size == inventory[1][1]
        avg == inventory[1][2]
    IN  /\ r.raised = NoError
        /\ LET pct == IF islong
                      THEN RMul(RDiv(RSub(p, avg), avg), Hundred)
                      ELSE RMul(RDiv(RSub(avg, p), avg), Hundred)
           IN  r.ret = <<RDiv(RMul(amt, pct), Hundred), pct, avg, RMul(amt, p)>>
        /\ r.inv.islong = islong
        /\ IF amt = size
           THEN /\ r.inv.inventory = <<>>
                /\ Inventory_get_amount(r.inv) = Zero
                /\ Inventory_get_price(r.inv) = Zero
                /\ go_long(r.inv).raised = NoError
                /\ go_short(r.inv).raised = NoError
           ELSE r.inv.inventory = <<<<RSub(size, amt), avg>>>>

\* C20 as stated: an exit (close on a long lot, cover on a short one) of
\* amount from a non-empty lot of size s and average price avg, with
\* 0 < amount <= s and price > 0, returns (amount*pct/100, pct, avg,
\* amount*price), pct being (price - avg)/avg*100 for a long lot and
\* (avg - price)/avg*100 for a short one; the lot becomes empty when amount
\* equals s (amount and price read 0, the direction may be set again), and
\* otherwise keeps avg with size s - amount.
C20_ExitReturns ==
    inventory # <<>> =>
        \A a \in Amounts, p \in Prices :
            (RGt(RAbs(a), Zero) /\ RLe(RAbs(a), inventory[1][1])) =>
                \A r \in {IF islong THEN Inventory_close(Inv, a, p)
                          ELSE Inventory_cover(Inv, a, p)} :
                    C20_Expected(r, RAbs(a), p)

RECURSIVE LogAmount(_)
\* The sum of the signed amounts of a list of trade-log entries.
LogAmount(entrylist) ==
    IF entrylist = <<>> THEN Zero
    ELSE RAdd(Head(entrylist).amount, LogAmount(Tail(entrylist)))

\* C21 as stated: in every state reached from Position(fund=4) by long,
\* short, close, cover and allocate calls, fund is the initial fund minus the
\* sum of logged amount * logged price over the trade log, fee is the sum of
\* the logged fees, and the signed amount held is the sum of the logged
\* signed amounts.
C21_LedgerFromLog ==
    /\ fund = RSub(Int2R(4), LogNotional(trade_log))
    /\ fee = LogFees(trade_log)
    /\ get_amount(Self) = LogAmount(trade_log)

\* C22 as stated: whenever a call of allocate raises, in a primitive or an
\* Inventory operation, the second leg of a close-then-short or
\* cover-then-long included, fund, fee, the inventory lot, strategy_exposure,
\* the trade log and the trade-profit log are as they were before the call.
C22_AllocateAllOrNothing ==
    [][ (call'.op = "allocate" /\ call'.raised # NoError) =>
           UNCHANGED <<fund, fee, inventory, strategy_exposure, trade_log,
                       trade_profit>> ]_vars


\* ------------------------------------------ calls on the positions of a
\* Portfolio, in any order
MaxPairRecords == 2

\* The inputs of the calls made on the positions of a portfolio.
PairAmounts == Amounts
PairPrices == Prices
PairExposures == {Rat(-1, 2), Int2R(0), Int2R(1)}
PairTimestamps == {1}

\* The Position of a symbol.
PositionOf(symbol) == Deref(portfolio.heap, portfolio.positions[symbol])

\* Portfolio(fund=8, allocations={"A": 1/2, "B": 1/4})
InitPair ==
    /\ InitPosition(Zero)
    /\ stat = NoStatistics
    /\ series = NoSeries
    /\ portfolio = Portfolio_init(PortfolioFund)
    /\ replay = [NoReplay EXCEPT
                   !.alone = [x \in DOMAIN Allocations |->
                                NewPosition(RMul(PortfolioFund, Allocations[x]))]]

RECURSIVE PairRecords(_)
PairRecords(todo) ==
    IF todo = {} THEN 0
    ELSE LET symbol == CHOOSE x \in todo : TRUE
         IN  Len(PositionOf(symbol).trade_log) + Len(PositionOf(symbol).balance_log)
             + PairRecords(todo \ {symbol})

CanCallPair == PairRecords(DOMAIN Allocations) < MaxPairRecords

\* portfolio.positions[symbol].<op>(...): the method ran on the Position of
\* the symbol and left it as r.self; the same call is replayed on the copy
\* of the position that is traded alone.
CallOn(symbol, op, r, ralone) ==
    /\ \E st \in {Store(portfolio.heap, portfolio.positions[symbol], r.self)} :
         portfolio' = [heap |-> st.heap,
                       positions |-> [portfolio.positions EXCEPT ![symbol] = st.obj]]
    /\ replay' = [alone |-> [replay.alone EXCEPT ![symbol] = ralone.self],
                  symbol |-> symbol, op |-> op, raised |-> r.raised]
    /\ UNCHANGED PositionVars
    /\ UNCHANGED <<stat, series>>

PairLong ==
    /\ CanCallPair
    /\ \E symbol \in DOMAIN Allocations, a \in PairAmounts, p \in PairPrices :
         \E r \in {long(PositionOf(symbol), a, p, None)},
            ralone \in {long(replay.alone[symbol], a, p, None)} :
             CallOn(symbol, "long", r, ralone)

PairShort ==
    /\ CanCallPair
    /\ \E symbol \in DOMAIN Allocations, a \in PairAmounts, p \in PairPrices :
         \E r \in {short(PositionOf(symbol), a, p, None)},
            ralone \in {short(replay.alone[symbol], a, p, None)} :
             CallOn(symbol, "short", r, ralone)

PairClose ==
    /\ CanCallPair
    /\ \E symbol \in DOMAIN Allocations, a \in PairAmounts, p \in PairPrices :
         \E r \in {close(PositionOf(symbol), a, p, None)},
            ralone \in {close(replay.alone[symbol], a, p, None)} :
             CallOn(symbol, "close", r, ralone)

PairCover ==
    /\ CanCallPair
    /\ \E symbol \in DOMAIN Allocations, a \in PairAmounts, p \in PairPrices :
         \E r \in {cover(PositionOf(symbol), a, p, None)},
            ralone \in {cover(replay.alone[symbol], a, p, None)} :
             CallOn(symbol, "cover", r, ralone)

PairAllocate ==
    /\ CanCallPair
    /\ \E symbol \in DOMAIN Allocations, e \in PairExposures, p \in PairPrices :
         \E r \in {allocate(PositionOf(symbol), e, p, None)},
            ralone \in {allocate(replay.alone[symbol], e, p, None)} :
             CallOn(symbol, "allocate", r, ralone)

PairEndDate ==
    /\ CanCallPair
    /\ \E symbol \in DOMAIN Allocations, t \in PairTimestamps, p \in PairPrices :
         \E r \in {end_date(PositionOf(symbol), t, p)},
            ralone \in {end_date(replay.alone[symbol], t, p)} :
             CallOn(symbol, "end_date", r, ralone)

NextPair ==
    \/ PairLong
    \/ PairShort
    \/ PairClose
    \/ PairCover
    \/ PairAllocate
    \/ PairEndDate

\* The positions of a portfolio, called in any order.
SpecPair == InitPair /\ [][NextPair]_vars

\* The fund, the fee, the inventory and the logs of the Position of a symbol.
LedgerOf(pf, symbol) ==
    LET p == Deref(pf.heap, pf.positions[symbol])
    IN  [fund |-> p.fund, fee |-> p.fee, inv |-> p.inv, trade_log |-> p.trade_log,
         trade_profit |-> p.trade_profit, balance_log |-> p.balance_log,
         timestamp_log |-> p.timestamp_log]

\* C23: a call on the position of one symbol leaves the fund, the fee, the
\* inventory and the logs of the position of every other symbol as they
\* were, and after any interleaving of calls every position of the portfolio
\* is in the state it reaches when the calls made on it are replayed on a
\* position of its own.
C23_Step ==
    \A symbol \in DOMAIN Allocations :
        (replay'.op # "init" /\ replay'.symbol # symbol)
            => LedgerOf(portfolio', symbol) = LedgerOf(portfolio, symbol)

C23_Replayed ==
    \A symbol \in DOMAIN Allocations :
        Deref(portfolio'.heap, portfolio'.positions[symbol]) = replay'.alone[symbol]

C23_PositionsIndependent == [][C23_Step /\ C23_Replayed]_vars

\* Both positions recorded something, and not the same thing.
C23_Witness ==
    /\ replay.op # "init"
    /\ PositionOf("A").trade_log # <<>>
    /\ PositionOf("B").trade_log # <<>>
    /\ PositionOf("A").trade_log # PositionOf("B").trade_log
    /\ PositionOf("A").inv # PositionOf("B").inv
====
